---- MODULE Spec2Model ----
(***************************************************************************)
(* Model of the sideko CLI's local logic:                                  *)
(*   - the SDK update flow      (core/src/cmds/sdk/update.rs)              *)
(*   - the dotenv/keyring config store (core/src/utils/config.rs)          *)
(*   - the CLI path validators  (core/src/utils/validators.rs)             *)
(* Each part has its own specification over the shared variables; the      *)
(* variables of the other parts stay at their initial value.               *)
(***************************************************************************)
EXTENDS Integers, Sequences, FiniteSets, TLC

VARIABLES
    \* ---- update flow: the repo directory and its surroundings
    repoKind,      \* what `--repo` points at: "absent" | "file" | "dir"
    gitDir,        \* what `<repo>/.git` is:    "absent" | "file" | "dir"
    gitRepoOk,     \* git recognises the directory as a work tree
    treeDirty,     \* staged/unstaged/untracked changes other than the patch file
    patchIgnored,  \* sdk_update.patch matches a .gitignore rule
    sdkJson,       \* `<repo>/.sdk.json`: "absent" | "dir" | "malformed" | "valid"
    patchFile,     \* content of `<repo>/sdk_update.patch`, or NoFile
    \* ---- update flow: the running command
    pc,            \* position of SdkUpdateCommand::handle
    result,        \* "none" while running, "Ok" or the error at the end
    run,           \* what this run has done so far (history of the run)
    runs,          \* number of runs started
    \* ---- config store: set_env
    cfgFile,       \* content of the config file (sequence of characters), or NoFile
    setters,       \* the set_env invocations: position, arguments, snapshot
    lastSet,       \* the last set_env call that returned, and what it found
    nSets,         \* number of set_env calls that have returned
    \* ---- config store: lookups
    envVars,       \* environment: ConfigKey -> value or Absent
    keyringState,  \* state of the native credential store entry for the api key
    lookup,        \* the last lookup made and its outcome
    \* ---- validators
    fsKind,        \* path -> "absent" | "file" | "dir"
    validated      \* the last validator call and its outcome

vars == <<repoKind, gitDir, gitRepoOk, treeDirty, patchIgnored, sdkJson, patchFile,
          pc, result, run, runs, cfgFile, setters, lastSet, nSets,
          envVars, keyringState, lookup, fsKind, validated>>

updVars == <<repoKind, gitDir, gitRepoOk, treeDirty, patchIgnored, sdkJson, patchFile,
             pc, result, run, runs>>
setVars == <<cfgFile, setters, lastSet, nSets>>
getVars == <<envVars, keyringState, lookup>>
valVars == <<fsKind, validated>>

\* sentinels, sequences like the values they stand in for
NoFile == <<"ENOENT">>   \* the path does not exist
Absent == <<"None">>     \* Option::None
Kinds  == {"absent", "file", "dir"}

(***************************************************************************)
(* Bounds                                                                  *)
(***************************************************************************)
MaxRuns     == 2   \* consecutive runs of the update command on one repo
MaxPatchLen == 2   \* bytes in the remote update response

RECURSIVE SeqsUpTo(_, _)
SeqsUpTo(S, n) ==
    IF n = 0 THEN {<<>>}
    ELSE LET shorter == SeqsUpTo(S, n - 1)
         IN  shorter \cup {Append(s, x) : s \in shorter, x \in S}

IsPrefix(p, s) == Len(p) <= Len(s) /\ SubSeq(s, 1, Len(p)) = p

(***************************************************************************)
(* Path validators (validators.rs)                                         *)
(***************************************************************************)
is_dir(kind)  == kind = "dir"
is_file(kind) == kind = "file"
exists(kind)  == kind # "absent"

\* validate_path: `allowed` of the match on (path_kind, allow_dne)
validate_path(kind, path_kind, allow_dne) ==
    CASE path_kind = "File" /\ ~allow_dne -> is_file(kind)
      [] path_kind = "File" /\ allow_dne  -> is_file(kind) \/ ~exists(kind)
      [] path_kind = "Dir"  /\ ~allow_dne -> is_dir(kind)
      [] path_kind = "Dir"  /\ allow_dne  -> is_dir(kind) \/ ~exists(kind)

validate_file(kind)           == validate_path(kind, "File", FALSE)
validate_file_allow_dne(kind) == validate_path(kind, "File", TRUE)
validate_dir(kind)            == validate_path(kind, "Dir", TRUE)
validate_dir_allow_dne(kind)  == validate_path(kind, "Dir", TRUE)

(***************************************************************************)
(* Update flow (update.rs)                                                 *)
(***************************************************************************)
PatchBytes == {"d", "+"}
Responses  == SeqsUpTo(PatchBytes, MaxPatchLen)

\* faulty variant: untracked files are left out of the status
StatusStdoutTrackedOnly ==
    IF gitRepoOk /\ treeDirty THEN <<"M">> ELSE <<>>

\* stdout of `git status --porcelain` run in the repo directory
StatusStdout ==
    IF ~gitRepoOk THEN <<>>
    ELSE (IF treeDirty THEN <<"M">> ELSE <<>>)
         \o (IF patchFile # NoFile /\ ~patchIgnored THEN <<"??">> ELSE <<>>)

\* how the run before this one ended (`wrote`: its fs::write created the patch
\* file); the first run has none before it
NoPrev == [result |-> "none", applyExit |-> "none", wrote |-> FALSE]

FreshRun ==
    [log |-> <<>>, statusOut |-> "none", response |-> Absent, applyExit |-> "none",
     report |-> "none", patchAtStart |-> patchFile, treeAtStart |-> treeDirty,
     steps |-> <<>>, written |-> "none", prev |-> NoPrev]

Did(what)   == \E i \in 1..Len(run.log) : run.log[i] = what
Logged(what) == [run EXCEPT !.log = Append(@, what)]

\* `r` with one more step of handle that has returned without an error
Passed(r, step) == [r EXCEPT !.steps = Append(@, step)]

Finish(res) == /\ pc' = "done"
               /\ result' = res

\* the other parts of the program are not touched
UpdFrame == UNCHANGED <<setVars, getVars, valVars>>
SetFrame == UNCHANGED <<updVars, getVars, valVars>>
GetFrame == UNCHANGED <<updVars, setVars, valVars>>
ValFrame == UNCHANGED <<updVars, setVars, getVars>>

InitUpdate ==
    /\ repoKind \in Kinds
    /\ gitDir \in Kinds
    /\ gitRepoOk \in BOOLEAN
    /\ treeDirty \in BOOLEAN
    /\ patchIgnored \in BOOLEAN
    /\ sdkJson \in {"absent", "dir", "malformed", "valid"}
    /\ patchFile = NoFile
    \* nothing lives below a path that is not a directory
    /\ repoKind # "dir" =>
          /\ gitDir = "absent" /\ ~gitRepoOk /\ ~treeDirty /\ ~patchIgnored
          /\ sdkJson = "absent" /\ patchFile = NoFile
    \* where git sees no work tree it reports no change and reads no ignore rule
    /\ ~gitRepoOk => ~treeDirty /\ ~patchIgnored
    /\ pc = "cli"
    /\ result = "none"
    /\ run = FreshRun
    /\ runs = 1

\* clap parses `--repo` with validate_dir, then the command's handle starts
ParseArgs ==
    /\ pc = "cli"
    /\ IF validate_dir(repoKind)
       THEN pc' = "validate_git_root" /\ result' = result
       ELSE Finish("InputValidation")
    /\ UNCHANGED <<repoKind, gitDir, gitRepoOk, treeDirty, patchIgnored, sdkJson,
                   patchFile, run, runs>>
    /\ UpdFrame

\* faulty variant: any `.git` entry is accepted, a file too
GitDirExistsOnly(kind) == exists(kind)

\* update.rs:50  git_dir.is_dir() && git_dir.exists()
GitDirPresent(kind) == is_dir(kind) /\ exists(kind)

\* faulty variant: the output of `git status` is not looked at
StatusCleanIgnored(stdout) == TRUE

\* update.rs:68  status_output.stdout.is_empty()
StatusClean(stdout) == stdout = <<>>

validate_git_root ==
    /\ pc = "validate_git_root"
    /\ IF ~GitDirPresent(gitDir)
       THEN /\ Finish("NotAGitRepo")
            /\ run' = run
       ELSE \E spawned \in BOOLEAN :
              IF ~spawned
              THEN /\ Finish("GitUnavailable")
                   /\ run' = run
              ELSE LET ran == [Logged("git_status") EXCEPT
                                 !.statusOut = IF StatusStdout = <<>> THEN "empty"
                                               ELSE "nonempty"]
                   IN  IF StatusClean(StatusStdout)
                       THEN /\ pc' = "validate_sdk_id" /\ result' = result
                            /\ run' = Passed(ran, "validate_git_root")
                       ELSE /\ Finish("DirtyWorkingTree")
                            /\ run' = ran
    /\ UNCHANGED <<repoKind, gitDir, gitRepoOk, treeDirty, patchIgnored, sdkJson,
                   patchFile, runs>>
    /\ UpdFrame

\* what kind of entry `<repo>/.sdk.json` is
SdkJsonKind ==
    CASE sdkJson \in {"malformed", "valid"} -> "file"
      [] sdkJson = "dir"                    -> "dir"
      [] OTHER                              -> "absent"

\* update.rs:84-108  md_path.is_file() && md_path.exists(), read_to_string, from_str
validate_sdk_id ==
    /\ pc = "validate_sdk_id"
    /\ IF ~(is_file(SdkJsonKind) /\ exists(SdkJsonKind))
       THEN /\ Finish("UnresolvableRepoIdentity")
            /\ run' = run
       ELSE \E readable \in BOOLEAN :
              IF ~readable \/ sdkJson # "valid"
              THEN /\ Finish("UnresolvableRepoIdentity")
                   /\ run' = run
              ELSE /\ pc' = "read_config" /\ result' = result
                   /\ run' = Passed(run, "validate_sdk_id")
    /\ UNCHANGED <<repoKind, gitDir, gitRepoOk, treeDirty, patchIgnored, sdkJson,
                   patchFile, runs>>
    /\ UpdFrame

\* update.rs:114  UploadFile::from_path(self.config)
read_config ==
    /\ pc = "read_config"
    /\ \E readable \in BOOLEAN :
         IF readable
         THEN /\ pc' = "pack" /\ result' = result
              /\ run' = Passed(run, "read_config")
         ELSE /\ Finish("ConfigIO")
              /\ run' = run
    /\ UNCHANGED <<repoKind, gitDir, gitRepoOk, treeDirty, patchIgnored, sdkJson,
                   patchFile, runs>>
    /\ UpdFrame

\* update.rs:122-136  temp dir, archive file, tar of .git, re-read of the archive
pack ==
    /\ pc = "pack"
    /\ \E outcome \in {"tempdir_err", "create_err", "tar_err", "ok"} :
         CASE outcome \in {"tempdir_err", "create_err"} ->
                 /\ Finish("LocalIO")
                 /\ run' = run
           [] outcome = "tar_err" ->
                 /\ Finish("LocalIO")
                 /\ run' = Logged("create_archive")
           [] outcome = "ok" ->
                 /\ pc' = "request" /\ result' = result
                 /\ run' = Passed(Logged("create_archive"), "pack")
    /\ UNCHANGED <<repoKind, gitDir, gitRepoOk, treeDirty, patchIgnored, sdkJson,
                   patchFile, runs>>
    /\ UpdFrame

\* faulty variant: a failed request is sent again
OnRequestErrorRetry == pc' = "request" /\ result' = result

\* update.rs:151  `.await?`: the error of the remote call ends the run
OnRequestError == Finish("RemoteRequestFailure")

\* update.rs:142-151  client.sdk().update(...).await?
request ==
    /\ pc = "request"
    /\ \/ /\ OnRequestError
          /\ run' = Logged("request")
       \/ \E body \in Responses :
            /\ run' = [Logged("request") EXCEPT !.response = body]
            /\ pc' = "check_response" /\ result' = result
    /\ UNCHANGED <<repoKind, gitDir, gitRepoOk, treeDirty, patchIgnored, sdkJson,
                   patchFile, runs>>
    /\ UpdFrame

\* faulty variant: an empty response is treated like a patch
NoUpdatesNever(body) == FALSE

\* update.rs:158  patch_content.is_empty()
NoUpdates(body) == Len(body) = 0

\* faulty variant: the file is created but the response is not written into it
WrittenFileTruncated(old, body, outcome) ==
    IF outcome = "create_err" THEN old ELSE <<>>

\* update.rs:167  fs::write(&patch_path, &patch_content): the file after the call
WrittenFile(old, body, outcome) ==
    CASE outcome = "ok"         -> body
      [] outcome = "create_err" -> old
      [] outcome = "write_err"  -> <<>>

\* update.rs:158-168
check_response ==
    /\ pc = "check_response"
    /\ IF NoUpdates(run.response)
       THEN /\ run' = [run EXCEPT !.report = "no_updates"]
            /\ Finish("Ok")
            /\ patchFile' = patchFile
       ELSE \E outcome \in {"ok", "create_err", "write_err"} :
              /\ patchFile' = WrittenFile(patchFile, run.response, outcome)
              /\ run' = [Logged("write_patch") EXCEPT !.written = outcome]
              /\ IF outcome = "ok"
                 THEN pc' = "apply" /\ result' = result
                 ELSE Finish("LocalIO")
    /\ UNCHANGED <<repoKind, gitDir, gitRepoOk, treeDirty, patchIgnored, sdkJson, runs>>
    /\ UpdFrame

\* faulty variant: the patch file is removed whatever `git apply` returned
PatchAlwaysRemoved(file, success, removed) == NoFile

\* faulty variant: the patch file is never removed
PatchNeverRemoved(file, success, removed) == file

\* update.rs:182-185  the patch file after `git apply` has exited
PatchAfterApply(file, success, removed) ==
    IF success /\ removed THEN NoFile ELSE file

\* update.rs:170-197  `git apply sdk_update.patch`, then remove_file on success;
\* a patch that does not apply leaves the tree as it was
apply ==
    /\ pc = "apply"
    /\ \E spawned \in BOOLEAN, success \in BOOLEAN, removed \in BOOLEAN :
         IF ~spawned
         THEN /\ Finish("GitUnavailable")
              /\ UNCHANGED <<run, patchFile, treeDirty>>
         ELSE /\ patchFile' = PatchAfterApply(patchFile, success, removed)
              /\ treeDirty' = (treeDirty \/ success)
              /\ IF success
                 THEN /\ run' = [Logged("git_apply") EXCEPT
                                   !.applyExit = "zero", !.report = "applied",
                                   !.log = @ \o <<"remove_patch">>]
                      /\ Finish(IF removed THEN "Ok" ELSE "LocalIO")
                 ELSE /\ run' = [Logged("git_apply") EXCEPT !.applyExit = "nonzero"]
                      /\ Finish("ExternalToolFailure")
    /\ UNCHANGED <<repoKind, gitDir, gitRepoOk, patchIgnored, sdkJson, runs>>
    /\ UpdFrame

\* the user runs the command again on the same repo, nothing done in between
NextRun ==
    /\ pc = "done"
    /\ runs < MaxRuns
    /\ runs' = runs + 1
    /\ pc' = "cli"
    /\ result' = "none"
    /\ run' = [FreshRun EXCEPT !.prev = [result |-> result,
                                         applyExit |-> run.applyExit,
                                         wrote |-> run.written \in {"ok", "write_err"}]]
    /\ UNCHANGED <<repoKind, gitDir, gitRepoOk, treeDirty, patchIgnored, sdkJson,
                   patchFile>>
    /\ UpdFrame

(***************************************************************************)
(* Config store: ConfigKey and set_env (config.rs)                         *)
(***************************************************************************)
ConfigKeys == {"ConfigPath", "ApiKey", "ApiBaseUrl"}

\* impl Display for ConfigKey: the variable name, one symbol of the file alphabet
KeyName(key) ==
    CASE key = "ApiKey"     -> <<"SIDEKO_API_KEY">>
      [] key = "ApiBaseUrl" -> <<"SIDEKO_BASE_URL">>
      [] key = "ConfigPath" -> <<"SIDEKO_CONFIG_PATH">>

NL == "\n"

\* characters shlex leaves unquoted (letters, digits, `_` ...)
SafeChars == {"a", "b", "SIDEKO_API_KEY", "SIDEKO_BASE_URL", "SIDEKO_CONFIG_PATH"}

Has(s, c) == \E i \in 1..Len(s) : s[i] = c

\* config.rs:46-48  shlex::try_quote(val).unwrap_or_else(|_| val)
Quote(val) ==
    IF val = <<>> THEN <<"'", "'">>
    ELSE IF Has(val, "NUL") THEN val
    ELSE IF \A i \in 1..Len(val) : val[i] \in SafeChars THEN val
    ELSE IF ~Has(val, "'") THEN <<"'">> \o val \o <<"'">>
    ELSE <<"\"">> \o val \o <<"\"">>

\* config.rs:49  format!("{self}={sh_safe}")
DotenvEntry(key, val) == KeyName(key) \o <<"=">> \o Quote(val)

\* config.rs:56  dotenv_string.split("\n"): always at least one (maybe empty) line
RECURSIVE Split(_)
Split(s) ==
    IF ~Has(s, NL) THEN <<s>>
    ELSE LET i == CHOOSE k \in 1..Len(s) : s[k] = NL /\ \A j \in 1..(k - 1) : s[j] # NL
         IN  <<SubSeq(s, 1, i - 1)>> \o Split(SubSeq(s, i + 1, Len(s)))

\* config.rs:79  new_dotenv.join("\n")
RECURSIVE Join(_)
Join(lines) ==
    IF Len(lines) = 0 THEN <<>>
    ELSE IF Len(lines) = 1 THEN lines[1]
    ELSE lines[1] \o <<NL>> \o Join(Tail(lines))

\* config.rs:52-59  curr_dotenv
CurrDotenv(file) == IF file = NoFile THEN <<>> ELSE Split(file)

\* config.rs:64  l.starts_with(&format!("{self}="))
Matches(line, key) == IsPrefix(KeyName(key) \o <<"=">>, line)

\* faulty variant: only the first matching line becomes the entry
ReplaceFirstOnly(lines, key, entry) ==
    [i \in 1..Len(lines) |->
        IF Matches(lines[i], key) /\ \A j \in 1..(i - 1) : ~Matches(lines[j], key)
        THEN entry ELSE lines[i]]

\* config.rs:63-71  the map over the lines: every matching line becomes the entry
ReplaceLines(lines, key, entry) ==
    [i \in 1..Len(lines) |-> IF Matches(lines[i], key) THEN entry ELSE lines[i]]

\* faulty variant: the entry is appended without looking for the key
NewDotenvAppendOnly(lines, key, entry) == Append(lines, entry)

\* config.rs:61-76  new_dotenv: replace, or append when no line matched
NewDotenv(lines, key, entry) ==
    LET replaced == \E i \in 1..Len(lines) : Matches(lines[i], key)
    IN  IF replaced THEN ReplaceLines(lines, key, entry)
        ELSE Append(ReplaceLines(lines, key, entry), entry)

\* faulty variant: the file is opened for append instead of being rewritten
WriteAppend(old, content) == IF old = NoFile THEN content ELSE old \o content

\* config.rs:79  std::fs::write(&cfg_path, ...): the file after a successful write
WriteWhole(old, content) == content

\* the content set_env writes, from the lines it has read
SetEnvContent(lines, key, val) == Join(NewDotenv(lines, key, DotenvEntry(key, val)))

KeyLines(file, key) ==
    IF file = NoFile THEN 0
    ELSE Cardinality({i \in 1..Len(Split(file)) : Matches(Split(file)[i], key)})

MaxLines == 2   \* lines of the config file before the first set_env
MaxSets  == 2   \* set_env calls in a row

SetKeys == {"ApiKey", "ApiBaseUrl"}
SetValues ==
    { <<>>, <<"a">>, <<"b">>, <<"a", " ", "b">>, <<"a", "'">>,
      <<"a", NL, "SIDEKO_API_KEY", "=", "b">>, <<"NUL">> }
InitLines ==
    { <<>>, <<"#">>, <<"SIDEKO_API_KEY", "=", "a">>, <<"SIDEKO_BASE_URL", "=", "a">> }
InitFiles == {NoFile} \cup {Join(ls) : ls \in SeqsUpTo(InitLines, MaxLines)}

\* before any call
NoSet ==
    [proc |-> 0, key |-> "none", val |-> <<>>, res |-> "none", before |-> NoFile,
     same |-> FALSE, before2 |-> NoFile]

\* the record of a call that has returned: `same` when the call before it succeeded
\* with the same key and value, `before2` the file that earlier call started from
SetRecord(p, key, val, res) ==
    LET same == /\ res = "Ok" /\ lastSet.res = "Ok"
                /\ lastSet.key = key /\ lastSet.val = val
    IN  [proc |-> p, key |-> key, val |-> val, res |-> res, before |-> cfgFile,
         same |-> same, before2 |-> IF same THEN lastSet.before ELSE NoFile]

InitSetEnv ==
    /\ cfgFile \in InitFiles
    /\ setters = <<>>
    /\ lastSet = NoSet
    /\ nSets = 0

\* ConfigKey::set_env, the whole call
set_env ==
    /\ nSets < MaxSets
    /\ \E key \in SetKeys, val \in SetValues,
          outcome \in {"ok", "path_err", "read_err", "write_err"} :
         /\ outcome = "read_err" => cfgFile # NoFile
         /\ cfgFile' =
              CASE outcome = "ok" ->
                     WriteWhole(cfgFile, SetEnvContent(CurrDotenv(cfgFile), key, val))
                [] outcome = "write_err" -> <<>>
                [] OTHER -> cfgFile
         /\ lastSet' = SetRecord(0, key, val, IF outcome = "ok" THEN "Ok" ELSE "Err")
    /\ nSets' = nSets + 1
    /\ UNCHANGED setters
    /\ SetFrame

(***************************************************************************)
(* Two set_env invocations on the same config path, no lock                *)
(***************************************************************************)
Procs == {1, 2}
RaceValues == { <<"a">>, <<"b">>, <<"a", " ", "b">> }

InitRace ==
    /\ cfgFile \in InitFiles
    /\ setters \in [Procs -> [pc : {"read"}, key : SetKeys, val : RaceValues,
                              curr : {<<>>}]]
    /\ lastSet = NoSet
    /\ nSets = 0

\* config.rs:51-59  this invocation reads the file (or finds none)
ReadFile(p) ==
    /\ setters[p].pc = "read"
    /\ setters' = [setters EXCEPT ![p].pc = "write", ![p].curr = CurrDotenv(cfgFile)]
    /\ UNCHANGED <<cfgFile, lastSet, nSets>>
    /\ SetFrame

\* config.rs:61-81  this invocation rewrites the file from what it has read
WriteFile(p) ==
    /\ setters[p].pc = "write"
    /\ cfgFile' = WriteWhole(cfgFile,
                     SetEnvContent(setters[p].curr, setters[p].key, setters[p].val))
    /\ setters' = [setters EXCEPT ![p].pc = "done"]
    /\ lastSet' = SetRecord(p, setters[p].key, setters[p].val, "Ok")
    /\ nSets' = nSets + 1
    /\ SetFrame

(***************************************************************************)
(* Config store: lookups (config.rs)                                       *)
(***************************************************************************)
EnvValues   == { <<"x">>, <<"x", "/v1">> }
Passwords   == { <<"y">>, <<"z">> }
DefaultUrl  == <<"https://api.sideko.dev", "/v1">>

\* config.rs:15-17  env::var(self.to_string()).ok()
get_env(key) == envVars[key]

\* config.rs:20-41  the value, and whether a warning was logged
get_keyring ==
    CASE keyringState.state = "init_err"  -> [ret |-> Absent, warned |-> TRUE]
      [] keyringState.state = "no_entry"  -> [ret |-> Absent, warned |-> FALSE]
      [] keyringState.state = "other_err" -> [ret |-> Absent, warned |-> TRUE]
      [] keyringState.state = "entry"     ->
             [ret |-> keyringState.password, warned |-> FALSE]

\* faulty variant: the keyring is asked before the environment
ApiKeySourceKeyringFirst ==
    IF get_keyring.ret # Absent THEN "keyring"
    ELSE IF get_env("ApiKey") # Absent THEN "env"
    ELSE "none"

\* config.rs:121-132  which source get_api_key answers from
ApiKeySource ==
    IF get_env("ApiKey") # Absent THEN "env"
    ELSE IF get_keyring.ret # Absent THEN "keyring"
    ELSE "none"

InitLookup ==
    /\ envVars \in [ConfigKeys -> {Absent} \cup EnvValues]
    /\ keyringState \in [state : {"init_err", "no_entry", "other_err"},
                         password : {Absent}]
                        \cup [state : {"entry"}, password : Passwords]
    /\ lookup = [fn |-> "none", ret |-> Absent, keyring |-> 0, warned |-> FALSE]

get_api_key ==
    /\ lookup' =
         CASE ApiKeySource = "env" ->
                [fn |-> "get_api_key", ret |-> get_env("ApiKey"), keyring |-> 0,
                 warned |-> FALSE]
           [] ApiKeySource = "keyring" ->
                [fn |-> "get_api_key", ret |-> get_keyring.ret, keyring |-> 1,
                 warned |-> get_keyring.warned]
           [] OTHER ->
                [fn |-> "get_api_key", ret |-> Absent, keyring |-> 1,
                 warned |-> get_keyring.warned]
    /\ UNCHANGED <<envVars, keyringState>>
    /\ GetFrame

\* config.rs:173-182
get_base_url ==
    /\ LET url == IF get_env("ApiBaseUrl") # Absent THEN get_env("ApiBaseUrl")
                  ELSE DefaultUrl
       IN  lookup' = [fn |-> "get_base_url", ret |-> url, keyring |-> 0,
                      warned |-> url[Len(url)] # "/v1"]
    /\ UNCHANGED <<envVars, keyringState>>
    /\ GetFrame

(***************************************************************************)
(* Validators called on paths of a file system                             *)
(***************************************************************************)
Paths == {"repo", "sdk.yaml", "api.json", "notes.txt"}

\* path.extension().unwrap_or_default(), with the leading dot of validators.rs:50
Extension(path) ==
    CASE path = "sdk.yaml"  -> ".yaml"
      [] path = "api.json"  -> ".json"
      [] path = "notes.txt" -> ".txt"
      [] OTHER              -> "."

\* validators.rs:45-58
validate_file_with_extension(path, kind, extensions) ==
    validate_path(kind, "File", FALSE) /\ Extension(path) \in extensions

validate_file_json_yaml(path, kind) ==
    validate_file_with_extension(path, kind, {".json", ".yml", ".yaml"})

InitValidate ==
    /\ fsKind \in [Paths -> Kinds]
    /\ validated = [fn |-> "none", path |-> "none", ok |-> FALSE]

Validated(fn, path, ok) ==
    /\ validated' = [fn |-> fn, path |-> path, ok |-> ok]
    /\ UNCHANGED fsKind
    /\ ValFrame

call_validate_file ==
    \E p \in Paths : Validated("validate_file", p, validate_file(fsKind[p]))
call_validate_file_json_yaml ==
    \E p \in Paths :
      Validated("validate_file_json_yaml", p, validate_file_json_yaml(p, fsKind[p]))
call_validate_file_allow_dne ==
    \E p \in Paths :
      Validated("validate_file_allow_dne", p, validate_file_allow_dne(fsKind[p]))
call_validate_dir ==
    \E p \in Paths : Validated("validate_dir", p, validate_dir(fsKind[p]))
call_validate_dir_allow_dne ==
    \E p \in Paths :
      Validated("validate_dir_allow_dne", p, validate_dir_allow_dne(fsKind[p]))

(***************************************************************************)
(* Specifications                                                          *)
(***************************************************************************)
IdleUpdate ==
    /\ repoKind = "dir" /\ gitDir = "dir" /\ gitRepoOk = TRUE
    /\ treeDirty = FALSE /\ patchIgnored = FALSE
    /\ sdkJson = "valid" /\ patchFile = NoFile
    /\ pc = "done" /\ result = "none" /\ runs = 0
    /\ run = FreshRun
IdleSet == cfgFile = NoFile /\ setters = <<>> /\ lastSet = NoSet /\ nSets = 0
IdleGet ==
    /\ envVars = [k \in ConfigKeys |-> Absent]
    /\ keyringState = [state |-> "no_entry", password |-> Absent]
    /\ lookup = [fn |-> "none", ret |-> Absent, keyring |-> 0, warned |-> FALSE]
IdleVal ==
    /\ fsKind = [p \in Paths |-> "absent"]
    /\ validated = [fn |-> "none", path |-> "none", ok |-> FALSE]

\* the update command, run up to MaxRuns times on one repo
Init == InitUpdate /\ IdleSet /\ IdleGet /\ IdleVal
Next ==
    \/ ParseArgs
    \/ validate_git_root
    \/ validate_sdk_id
    \/ read_config
    \/ pack
    \/ request
    \/ check_response
    \/ apply
    \/ NextRun
Spec == Init /\ [][Next]_vars

\* set_env called up to MaxSets times in a row
InitSets == IdleUpdate /\ InitSetEnv /\ IdleGet /\ IdleVal
NextSetEnv == set_env
SpecSetEnv == InitSets /\ [][NextSetEnv]_vars

\* two interleaved set_env invocations
InitRaces == IdleUpdate /\ InitRace /\ IdleGet /\ IdleVal
NextRace == \E p \in Procs : ReadFile(p) \/ WriteFile(p)
SpecRace == InitRaces /\ [][NextRace]_vars

\* the lookups
InitLookups == IdleUpdate /\ IdleSet /\ InitLookup /\ IdleVal
NextLookup == get_api_key \/ get_base_url
SpecLookup == InitLookups /\ [][NextLookup]_vars

\* the validators
InitValidates == IdleUpdate /\ IdleSet /\ IdleGet /\ InitValidate
NextValidate ==
    \/ call_validate_file
    \/ call_validate_file_json_yaml
    \/ call_validate_file_allow_dne
    \/ call_validate_dir
    \/ call_validate_dir_allow_dne
SpecValidate == InitValidates /\ [][NextValidate]_vars

(***************************************************************************)
(* Properties of the update flow                                           *)
(***************************************************************************)
Ended == pc = "done" /\ result # "none"
Index(what) == CHOOSE i \in 1..Len(run.log) : run.log[i] = what

\* C1: a run whose `git status --porcelain` output is non-empty ends right there
\* with the dirty-working-tree error: no archive has been created, no request
\* sent, no patch file written and `git apply` not run.
C1_DirtyFailsFast ==
    run.statusOut = "nonempty" =>
        /\ Ended /\ result = "DirtyWorkingTree"
        /\ run.log = <<"git_status">>
        /\ ~Did("create_archive") /\ ~Did("request")
        /\ ~Did("write_patch") /\ ~Did("git_apply")
        /\ patchFile = run.patchAtStart

C1_Witness ==
    Ended /\ run.statusOut = "nonempty" /\ treeDirty /\ result = "DirtyWorkingTree"

\* C2: when `.git` is not a directory, validate_git_root returns the
\* not-a-git-repo error as its first check: git is not invoked.
C2_NotAGitRepoFirst ==
    (gitDir # "dir" /\ validate_dir(repoKind)) =>
        /\ pc \in {"cli", "validate_git_root", "done"}
        /\ run.log = <<>>
        /\ Ended => result = "NotAGitRepo"

C2_Witness ==
    Ended /\ gitDir = "file" /\ result = "NotAGitRepo" /\ ~Did("git_status")

\* C3: a zero-byte response ends the run with success and the "no updates"
\* report; the patch file is not created, `git apply` is not run and the
\* working tree is as it was.
C3_EmptyResponse ==
    run.response = <<>> =>
        /\ pc \in {"check_response", "done"}
        /\ ~Did("write_patch") /\ ~Did("git_apply")
        /\ patchFile = run.patchAtStart
        /\ treeDirty = run.treeAtStart
        /\ Ended => result = "Ok" /\ run.report = "no_updates"

C3_Witness ==
    Ended /\ run.response = <<>> /\ result = "Ok" /\ run.report = "no_updates"

\* C4: with a non-empty response the patch file holds the response verbatim
\* when `git apply` starts, the write precedes `git apply`, the removal follows
\* a successful `git apply`, and a run that reports success after `git apply`
\* leaves no patch file.
C4_WriteApplyDelete ==
    /\ pc = "apply" =>
          /\ Len(run.response) > 0 /\ patchFile = run.response
          /\ run.log = <<"git_status", "create_archive", "request", "write_patch">>
    /\ Did("git_apply") => Index("write_patch") < Index("git_apply")
    /\ run.applyExit = "zero" =>
          /\ Did("remove_patch") /\ Index("git_apply") < Index("remove_patch")
    /\ (Ended /\ result = "Ok" /\ Did("git_apply")) =>
          /\ run.applyExit = "zero" /\ run.report = "applied"
          /\ patchFile = NoFile

C4_Witness ==
    /\ Ended /\ result = "Ok" /\ run.applyExit = "zero" /\ Len(run.response) > 0
    /\ patchFile = NoFile /\ Did("remove_patch")

\* C5: when `git apply` exits non-zero the run fails with the external tool
\* failure and the patch file, never removed, still holds the response.
C5_ApplyFailedKeepsPatch ==
    run.applyExit = "nonzero" =>
        /\ Ended /\ result = "ExternalToolFailure"
        /\ ~Did("remove_patch")
        /\ patchFile = run.response /\ patchFile # NoFile

C5_Witness ==
    Ended /\ run.applyExit = "nonzero" /\ result = "ExternalToolFailure"
          /\ patchFile = run.response

\* the steps of handle that come before the remote request, in their order
StepsBeforeRequest == <<"validate_git_root", "validate_sdk_id", "read_config", "pack">>
RequestsSent == Cardinality({i \in 1..Len(run.log) : run.log[i] = "request"})

\* C11: in a run the remote request is sent at most once, and only after
\* validate_git_root, validate_sdk_id, the read of the config file and the
\* packing of `.git` have all succeeded, in this order; a run in which one of
\* them failed has ended with an error and has sent no request.
C11_RequestOnceAfterAllSteps ==
    /\ RequestsSent <= 1
    /\ IsPrefix(run.steps, StepsBeforeRequest)
    /\ Did("request") =>
          /\ run.steps = StepsBeforeRequest
          /\ run.statusOut = "empty" /\ sdkJson = "valid" /\ Did("create_archive")
          /\ Index("create_archive") < Index("request")
    /\ (Ended /\ run.steps # StepsBeforeRequest) =>
          /\ result \notin {"Ok", "RemoteRequestFailure"}
          /\ ~Did("request")
    /\ (Ended /\ result = "RemoteRequestFailure") =>
          /\ RequestsSent = 1 /\ run.response = Absent
          /\ ~Did("write_patch") /\ ~Did("git_apply")

C11_Witness ==
    /\ Ended /\ result = "RemoteRequestFailure" /\ RequestsSent = 1
    /\ run.steps = StepsBeforeRequest

\* how the run before the current one ended
PrevApplied     == run.prev.result = "Ok" /\ run.prev.applyExit = "zero"
PrevApplyFailed == run.prev.result = "ExternalToolFailure"
                   /\ run.prev.applyExit = "nonzero"
PastValidation  == Len(run.steps) > 0

\* C13 as stated: the run after one that ended in Applied or ApplyFailed ends
\* with the dirty-working-tree error and sends no request; only after a run that
\* ended before writing the patch file can the next run get past validation.
C13_NextRunDirty ==
    runs > 1 =>
        /\ (Ended /\ (PrevApplied \/ PrevApplyFailed)) =>
              result = "DirtyWorkingTree" /\ ~Did("request")
        /\ PastValidation => ~run.prev.wrote

\* C13, amended: in a work tree that `git status` reports on, the run after one
\* that ended in Applied, or in ApplyFailed with the patch file not matched by an
\* ignore rule, does not get past validate_git_root and sends no request: it
\* ends there, with the dirty-working-tree error once git has been started.
\* The next run gets past validation only after a run that ended before writing
\* the patch file, or after one that left a patch file an ignore rule hides
\* without applying it, or where `git status` prints nothing because git sees no
\* work tree.
C13_NextRunDirtyUnlessHidden ==
    runs > 1 =>
        /\ (gitRepoOk /\ (PrevApplied \/ (PrevApplyFailed /\ ~patchIgnored))) =>
              /\ ~PastValidation /\ ~Did("request")
              /\ pc \in {"cli", "validate_git_root", "done"}
              /\ Ended => result \in {"DirtyWorkingTree", "GitUnavailable"}
              /\ Did("git_status") => (Ended /\ result = "DirtyWorkingTree")
        /\ PastValidation =>
              \/ ~run.prev.wrote
              \/ patchIgnored /\ run.prev.applyExit # "zero"
              \/ ~gitRepoOk

C13_Witness ==
    /\ runs > 1 /\ Ended /\ gitRepoOk /\ ~patchIgnored /\ PrevApplyFailed
    /\ patchFile # NoFile /\ result = "DirtyWorkingTree" /\ ~Did("request")

\* C6 as stated: at the end of a run the patch file exists only if `git apply`
\* was run in that run and exited non-zero.
C6_OnlyApplyFailedLeavesPatch ==
    (Ended /\ patchFile # NoFile) => run.applyExit = "nonzero"

\* C6, amended: at the end of a run the patch file exists only if it was there,
\* untouched, when the run started, or the run wrote it and then ended with an
\* error: the write failed part-way, `git apply` could not be started, `git apply`
\* exited non-zero, or the removal failed.
C6_PatchLeftOnlyAfterError ==
    (Ended /\ patchFile # NoFile) =>
        \/ ~Did("write_patch") /\ patchFile = run.patchAtStart
        \/ /\ Did("write_patch")
           /\ \/ result = "LocalIO" /\ ~Did("git_apply")
              \/ result = "GitUnavailable" /\ ~Did("git_apply")
              \/ result = "ExternalToolFailure" /\ run.applyExit = "nonzero"
              \/ result = "LocalIO" /\ run.applyExit = "zero"

C6_Witness ==
    /\ Ended /\ patchFile # NoFile /\ run.patchAtStart = NoFile
    /\ result = "GitUnavailable" /\ Did("write_patch") /\ run.applyExit = "none"

(***************************************************************************)
(* Properties of the config store                                          *)
(***************************************************************************)
\* C7 as stated: after the same key has been set to the same value twice in a
\* row, the file has exactly one line for that key.
C7_SetTwiceOneLine ==
    lastSet.same => KeyLines(cfgFile, lastSet.key) = 1

\* C7, amended: the same, for a value without a newline and a starting file
\* with at most one line for that key (an absent file included).
C7_SetTwiceOneLineFromAtMostOne ==
    (/\ lastSet.same
     /\ ~Has(lastSet.val, NL)
     /\ KeyLines(lastSet.before2, lastSet.key) <= 1)
        => KeyLines(cfgFile, lastSet.key) = 1

C7_Witness ==
    /\ lastSet.same /\ ~Has(lastSet.val, NL)
    /\ KeyLines(lastSet.before2, lastSet.key) = 1
    /\ lastSet.before2 # lastSet.before
    /\ KeyLines(cfgFile, lastSet.key) = 1

\* the last call succeeded on a file with more than one line for its key
SetOnDuplicates ==
    lastSet.res = "Ok" /\ KeyLines(lastSet.before, lastSet.key) > 1

\* C12 as stated: the matching lines of such a file pass through unmodified into
\* the rewritten file.
C12_MatchingLinesPassThrough ==
    SetOnDuplicates =>
        LET old == Split(lastSet.before)
            new == Split(cfgFile)
        IN  \A i \in 1..Len(old) :
              Matches(old[i], lastSet.key) => (i <= Len(new) /\ new[i] = old[i])

\* C12, amended: every matching line of such a file is replaced by the new
\* entry, every other line passes through unmodified in its place, and nothing
\* is appended.
C12_EveryMatchingLineReplaced ==
    SetOnDuplicates =>
        LET old   == Split(lastSet.before)
            new   == Split(cfgFile)
            entry == DotenvEntry(lastSet.key, lastSet.val)
        IN  /\ cfgFile = Join([i \in 1..Len(old) |->
                                  IF Matches(old[i], lastSet.key) THEN entry
                                  ELSE old[i]])
            /\ ~Has(lastSet.val, NL) =>
                  /\ Len(new) = Len(old)
                  /\ \A i \in 1..Len(old) :
                        new[i] = IF Matches(old[i], lastSet.key) THEN entry
                                 ELSE old[i]

C12_Witness ==
    /\ SetOnDuplicates /\ ~Has(lastSet.val, NL)
    /\ KeyLines(cfgFile, lastSet.key) = KeyLines(lastSet.before, lastSet.key)
    /\ \A i \in 1..Len(Split(lastSet.before)) :
          Matches(Split(lastSet.before)[i], lastSet.key) =>
             Split(cfgFile)[i] # Split(lastSet.before)[i]

\* C8: get_api_key returns the environment value whenever there is one, without
\* asking the keyring; it asks the keyring only when the environment has no
\* value, and returns absent when neither has one.
C8_EnvBeforeKeyring ==
    lookup.fn = "get_api_key" =>
        /\ envVars["ApiKey"] # Absent =>
              lookup.ret = envVars["ApiKey"] /\ lookup.keyring = 0
        /\ lookup.keyring > 0 => envVars["ApiKey"] = Absent
        /\ (envVars["ApiKey"] = Absent /\ keyringState.state = "entry") =>
              lookup.ret = keyringState.password
        /\ (envVars["ApiKey"] = Absent /\ keyringState.state # "entry") =>
              lookup.ret = Absent

C8_Witness ==
    /\ lookup.fn = "get_api_key" /\ envVars["ApiKey"] # Absent
    /\ keyringState.state = "entry" /\ lookup.ret = envVars["ApiKey"]

(***************************************************************************)
(* Properties of the validators                                            *)
(***************************************************************************)
\* C9: validate_dir returns Ok only for a path that is an existing directory.
C9_ValidateDirExisting ==
    (validated.fn = "validate_dir" /\ validated.ok) =>
        fsKind[validated.path] = "dir"

(***************************************************************************)
(* Properties of concurrent set_env invocations                            *)
(***************************************************************************)
Other(p) == CHOOSE q \in Procs : q # p
HasLine(file, line) ==
    file # NoFile /\ \E i \in 1..Len(Split(file)) : Split(file)[i] = line

\* C10: after any write, the file is exactly the whole content written by the
\* invocation that wrote last, computed from what that invocation had read.
C10_LastWriterWins ==
    lastSet.proc \in Procs =>
        cfgFile = SetEnvContent(setters[lastSet.proc].curr,
                                setters[lastSet.proc].key, setters[lastSet.proc].val)

\* both invocations have returned Ok and the entry of the first writer is gone
C10_Witness ==
    /\ \A p \in Procs : setters[p].pc = "done"
    /\ lastSet.proc \in Procs
    /\ setters[1].key # setters[2].key
    /\ ~HasLine(cfgFile, DotenvEntry(setters[Other(lastSet.proc)].key,
                                     setters[Other(lastSet.proc)].val))
    /\ HasLine(cfgFile, DotenvEntry(setters[lastSet.proc].key,
                                    setters[lastSet.proc].val))

====
